---- MODULE Spec2Model ----
(***************************************************************************)
(* A model of Menu.py: MenuItem and its four variants, Order, and the      *)
(* iterators over an Order (the list iterator of Order.__iter__,           *)
(* MenuMainIterator and MenuSecondIterator behind MenuIterable).           *)
(*                                                                         *)
(* Objects live in a heap and are named by their position in it, so that   *)
(* the same MenuItem object can be stored in an Order more than once.      *)
(*                                                                         *)
(* Money is exact fixed point: a price is an integer number of             *)
(* thousandths (Milli).  The program computes with binary floats; the      *)
(* rounding error of float arithmetic is outside this model.               *)
(***************************************************************************)
EXTENDS Integers, Sequences, FiniteSets, Bags, TLC

VARIABLES
    heap,        \* Seq of MenuItem objects; an object's identity is its index
    menu_items,  \* Order.menu_items: Seq of object identities
    added,       \* history: the arguments of add_item, in call order
    iters,       \* Seq of live iterator objects
    ret          \* outcome of the last operation (return value or exception)

vars == <<heap, menu_items, added, iters, ret>>

----------------------------------------------------------------------------
(* Bounds of the six specifications.                                       *)

\* Spec: one Order and several live traversals of it
MaxObjs == 2
MaxLen == 3
MaxIters == 2

\* SpecOrder: one Order, its bill and one traversal at a time
OrderMaxObjs == 2
OrderMaxLen == 3
OrderMaxIters == 1

\* SpecTraverse: one Order and one traversal at a time
TravMaxObjs == 2
TravMaxLen == 2
TravMaxIters == 1

\* SpecConstruct: construction only
ConsMaxObjs == 2

\* SpecItem: items of every class, change_price, and every other operation
ItemMaxObjs == 1
ItemMaxLen == 1
ItemMaxIters == 1
MaxChanges == 1

\* SpecLt: comparisons among several items
LtMaxObjs == 3

\* Number of thousandths in one unit of price.
Milli == 10 * 100

Kinds == {"MenuItem", "Appetizer", "MainCourse", "Beverage", "Dessert"}
Variants == Kinds \ {"MenuItem"}

\* The messages of the two ValueErrors of MenuItem.__init__.
InvalidPrice == "Price cannot be negative!"
InvalidQuantity == "Quantity must be greater than zero!"
NoError == "none"

----------------------------------------------------------------------------
(* MenuItem                                                                *)

\* self.price *= fee, for a fee given in hundredths
MulHundredths(price, hundredths) == (price * hundredths) \div 100

\* Mutant: a price of 0 is refused too
InitError_zero_refused(price, quantity) ==
    IF price <= 0 THEN InvalidPrice
    ELSE IF quantity <= 0 THEN InvalidQuantity
    ELSE NoError

\* MenuItem.__init__: the exception it raises, if any.  The price is
\* checked first.
InitError(price, quantity) ==
    IF price < 0 THEN InvalidPrice
    ELSE IF quantity <= 0 THEN InvalidQuantity
    ELSE NoError

\* The fee a variant's __init__ passes to change_price, in hundredths.
VariantFee(kind) ==
    CASE kind = "Appetizer" -> 95
      [] kind = "MainCourse" -> 105
      [] kind = "Beverage" -> 105
      [] kind = "Dessert" -> 95

\* Mutant: the fee is applied whatever the flag
InitialPrice_flag_ignored(kind, price, flag) ==
    IF kind \in Variants
    THEN MulHundredths(price * Milli, VariantFee(kind))
    ELSE price * Milli

\* The price of a new object of class kind: MenuItem.__init__ stores
\* the price, a variant's __init__ then calls change_price if its flag is set.
InitialPrice(kind, price, flag) ==
    IF kind \in Variants /\ flag
    THEN MulHundredths(price * Milli, VariantFee(kind))
    ELSE price * Milli

\* The object a successful constructor leaves.  flag is for_sharing, is_meet,
\* has_sugar or on_season; size is the Beverage's.  base and fees are
\* history: the price passed to the constructor and the fees of the
\* change_price calls made after construction.
NewItem(kind, name, price, quantity, flag, size) ==
    [ kind |-> kind,
      name |-> name,
      price |-> InitialPrice(kind, price, flag),
      quantity |-> quantity,
      flag |-> (kind \in Variants /\ flag),
      size |-> IF kind = "Beverage" THEN size ELSE "",
      base |-> price,
      fees |-> <<>> ]

\* Mutant: the quantity is forgotten
get_total_price_of_one(item) == item.price

\* MenuItem.get_total_price
get_total_price(item) == item.price * item.quantity

\* Mutant: equal quantities count as less
Lt_or_equal(a, b) ==
    IF a.price < b.price THEN TRUE
    ELSE IF a.price = b.price
         THEN (IF a.quantity <= b.quantity THEN TRUE ELSE FALSE)
         ELSE FALSE

\* MenuItem.__lt__
Lt(a, b) ==
    IF a.price < b.price THEN TRUE
    ELSE IF a.price = b.price
         THEN (IF a.quantity < b.quantity THEN TRUE ELSE FALSE)
         ELSE FALSE

\* str(item): a variant's __str__ returns its name; MenuItem itself defines
\* no __str__, so object.__repr__ is used (it shows the object's address).
Str(item) ==
    IF item.kind \in Variants THEN item.name ELSE "<MenuItem object>"

Ids == 1..Len(heap)

\* Constructing a MenuItem or a variant: Appetizer(...), MainCourse(...), ...
Construct(kind, name, price, quantity, flag, size, maxObjs) ==
    /\ Len(heap) < maxObjs
    /\ LET err == InitError(price, quantity) IN
       /\ heap' = IF err = NoError
                  THEN Append(heap, NewItem(kind, name, price, quantity, flag, size))
                  ELSE heap
       /\ ret' = [op |-> "construct", price |-> price, quantity |-> quantity,
                  err |-> err]
    /\ UNCHANGED <<menu_items, added, iters>>

\* item.change_price(fee), called on an existing object with a whole fee
change_price(i, fee, maxChanges) ==
    /\ i \in Ids
    /\ Len(heap[i].fees) < maxChanges
    /\ heap' = [heap EXCEPT ![i].price = @ * fee, ![i].fees = Append(@, fee)]
    /\ ret' = [op |-> "change_price", item |-> i]
    /\ UNCHANGED <<menu_items, added, iters>>

\* a < b, evaluated on two existing objects
less_than(i, j) ==
    /\ i \in Ids
    /\ j \in Ids
    /\ ret' = [op |-> "lt", left |-> i, right |-> j, val |-> Lt(heap[i], heap[j])]
    /\ UNCHANGED <<heap, menu_items, added, iters>>

----------------------------------------------------------------------------
(* Order                                                                   *)

\* Order.add_item
add_item(i, maxLen) ==
    /\ i \in Ids
    /\ Len(menu_items) < maxLen
    /\ menu_items' = Append(menu_items, i)
    /\ added' = Append(added, i)
    /\ ret' = [op |-> "add_item", item |-> i]
    /\ UNCHANGED <<heap, iters>>

\* [str(item) for item in self.menu_items]
ShowList(seq) == [k \in 1..Len(seq) |-> Str(heap[seq[k]])]

\* Order.show
show ==
    /\ ret' = [op |-> "show", val |-> ShowList(menu_items)]
    /\ UNCHANGED <<heap, menu_items, added, iters>>

\* Order.__len__
Order_len ==
    /\ ret' = [op |-> "len", val |-> Len(menu_items)]
    /\ UNCHANGED <<heap, menu_items, added, iters>>

\* sum(...): the built-in adds the totals to 0, first item first
RECURSIVE SumTotals(_, _)
SumTotals(acc, seq) ==
    IF seq = <<>> THEN acc
    ELSE SumTotals(acc + get_total_price(heap[Head(seq)]), Tail(seq))

\* The value Order.calculate_bill returns
BillOf(seq) == SumTotals(0, seq)

\* Order.calculate_bill
calculate_bill ==
    /\ ret' = [op |-> "calculate_bill", val |-> BillOf(menu_items)]
    /\ UNCHANGED <<heap, menu_items, added, iters>>

\* Mutant: the discount is clamped to [0, 1]
DiscountedBill_clamped(seq, tenths) ==
    LET t == IF tenths < 0 THEN 0 ELSE IF tenths > 10 THEN 10 ELSE tenths
    IN (BillOf(seq) * (10 - t)) \div 10

\* The value Order.apply_discount returns: total * (1 - discount), for a
\* discount given in tenths.
DiscountedBill(seq, tenths) == (BillOf(seq) * (10 - tenths)) \div 10

\* Order.apply_discount
apply_discount(tenths) ==
    /\ ret' = [op |-> "apply_discount", discount |-> tenths,
               val |-> DiscountedBill(menu_items, tenths)]
    /\ UNCHANGED <<heap, menu_items, added, iters>>

----------------------------------------------------------------------------
(* list.sort(): a stable sort that compares with __lt__ only.  Each        *)
(* element is inserted after the elements it is not less than.             *)

RECURSIVE InsertPos(_, _, _)
\* The first position, from k on, whose element x is less than
InsertPos(seq, x, k) ==
    IF k > Len(seq) THEN k
    ELSE IF Lt(heap[x], heap[seq[k]]) THEN k
    ELSE InsertPos(seq, x, k + 1)

InsertAt(seq, x, k) ==
    SubSeq(seq, 1, k - 1) \o <<x>> \o SubSeq(seq, k, Len(seq))

\* Mutant: a sorted copy is made and dropped, the list is left as it was
ListSort_of_a_copy(seq) == seq

RECURSIVE ListSort(_)
ListSort(seq) ==
    IF seq = <<>> THEN <<>>
    ELSE LET front == ListSort(SubSeq(seq, 1, Len(seq) - 1))
             x == seq[Len(seq)]
         IN InsertAt(front, x, InsertPos(front, x, 1))

----------------------------------------------------------------------------
(* The format of MenuSecondIterator's rows                                 *)

RECURSIVE Spaces(_)
Spaces(n) == IF n <= 0 THEN "" ELSE " " \o Spaces(n - 1)

\* {s:<w}
LJust(s, w) == s \o Spaces(w - Len(s))
\* {s:>w}
RJust(s, w) == Spaces(w - Len(s)) \o s
\* {s:^w}: the odd space goes to the right
Center(s, w) ==
    LET pad == IF w > Len(s) THEN w - Len(s) ELSE 0
    IN Spaces(pad \div 2) \o s \o Spaces(pad - pad \div 2)

\* A price in hundredths, rounded half to even
Hundredths(price) ==
    LET q == price \div 10
        r == price % 10
    IN IF r > 5 \/ (r = 5 /\ q % 2 = 1) THEN q + 1 ELSE q

\* {price:.2f}
Fixed2(price) ==
    LET h == Hundredths(IF price < 0 THEN -price ELSE price)
        frac == h % 100
    IN (IF price < 0 /\ h > 0 THEN "-" ELSE "")
       \o ToString(h \div 100) \o "."
       \o (IF frac < 10 THEN "0" ELSE "") \o ToString(frac)

\* f"{actual.name:<20} | {actual.price:>6.2f} | {actual.quantity:^5}"
Row(item) ==
    LJust(item.name, 20) \o " | " \o RJust(Fixed2(item.price), 6) \o " | "
    \o Center(ToString(item.quantity), 5)

----------------------------------------------------------------------------
(* Iterators.  A MenuIterable holds the Order and the method and nothing   *)
(* else; every __iter__ call on it makes a new iterator, so a call is      *)
(* modelled with the method of the MenuIterable it is made on.             *)

MainIterator == "MenuMainIterator"
SecondIterator == "MenuSecondIterator"
ListIterator == "list_iterator"

\* What a __next__ returns
YieldItem(i) == [type |-> "MenuItem", item |-> i]
YieldRow(s) == [type |-> "str", text |-> s]
None == [type |-> "None"]

\* Mutant: only method 2 selects the secondary traversal
IteratorClass_main_by_default(method) ==
    IF method = 2 THEN SecondIterator ELSE MainIterator

\* MenuIterable.__iter__: the class of the iterator it returns
IteratorClass(method) ==
    IF method = 1 THEN MainIterator ELSE SecondIterator

\* A new iterator object.  method and out are history: the method of the
\* MenuIterable (0 for Order.__iter__) and the values its __next__ has
\* returned.
NewIterator(kind, method) ==
    [ kind |-> kind,
      current_item_index |-> 0,
      exhausted |-> FALSE,
      method |-> method,
      out |-> <<>> ]

\* iter(MenuIterable(order, method)).  MenuSecondIterator.__init__ calls
\* self.order.menu_items.sort(), which sorts the Order's own list in place
\* and returns None (kept as self.list and never read).
MenuIterable_iter(method, maxIters) ==
    /\ Len(iters) < maxIters
    /\ LET kind == IteratorClass(method) IN
       /\ iters' = Append(iters, NewIterator(kind, method))
       /\ menu_items' = IF kind = SecondIterator
                        THEN ListSort(menu_items)
                        ELSE menu_items
       /\ ret' = [op |-> "iter", kind |-> kind, method |-> method]
    /\ UNCHANGED <<heap, added>>

\* Order.__iter__: iter(self.menu_items)
Order_iter(maxIters) ==
    /\ Len(iters) < maxIters
    /\ iters' = Append(iters, NewIterator(ListIterator, 0))
    /\ ret' = [op |-> "iter", kind |-> ListIterator, method |-> 0]
    /\ UNCHANGED <<heap, menu_items, added>>

\* What a __next__ of class kind returns for the object at its index
Yield(kind, i) ==
    IF kind = SecondIterator THEN YieldRow(Row(heap[i])) ELSE YieldItem(i)

\* Whether the __next__ of iterator it raises StopIteration: the two
\* classes of this file compare their index with len(self.order); a list
\* iterator that has raised once raises ever after.
Stops(it) ==
    IF it.kind = ListIterator
    THEN it.exhausted \/ it.current_item_index >= Len(menu_items)
    ELSE it.current_item_index = Len(menu_items)

\* next(it) for the k-th live iterator
Next_step(k) ==
    /\ k \in 1..Len(iters)
    /\ LET it == iters[k] IN
       IF Stops(it)
       THEN /\ iters' = [iters EXCEPT
                           ![k].exhausted = (it.kind = ListIterator)]
            /\ ret' = [op |-> "next", it |-> k, stop |-> TRUE, val |-> None]
       ELSE LET actual == menu_items[it.current_item_index + 1]
                val == Yield(it.kind, actual)
            IN /\ iters' = [iters EXCEPT
                              ![k].current_item_index = @ + 1,
                              ![k].out = Append(@, val)]
               /\ ret' = [op |-> "next", it |-> k, stop |-> FALSE, val |-> val]
    /\ UNCHANGED <<heap, menu_items, added>>

----------------------------------------------------------------------------
(* Specifications                                                          *)

Init ==
    /\ heap = <<>>
    /\ menu_items = <<>>
    /\ added = <<>>
    /\ iters = <<>>
    /\ ret = [op |-> "init"]

Names == {"Nachos", "Steak"}
Methods == {1, 2, 3}
Discounts == {-5, 0, 1, 15}
Fees == {2}

\* Several traversals of one Order, interleaved with add_item.
Next ==
    \/ \E name \in Names, flag \in BOOLEAN :
          Construct("Appetizer", name, 1, 1, flag, "", MaxObjs)
    \/ \E i \in Ids : add_item(i, MaxLen)
    \/ show
    \/ Order_len
    \/ \E m \in {1, 2} : MenuIterable_iter(m, MaxIters)
    \/ Order_iter(MaxIters)
    \/ \E k \in 1..Len(iters) : Next_step(k)

Spec == Init /\ [][Next]_vars

\* One Order and its bill; a secondary traversal is made now and then.
NextOrder ==
    \/ \E quantity \in {1, 2}, flag \in BOOLEAN :
          Construct("MainCourse", "Steak", 1, quantity, flag, "", OrderMaxObjs)
    \/ \E i \in Ids : add_item(i, OrderMaxLen)
    \/ calculate_bill
    \/ \E d \in Discounts : apply_discount(d)
    \/ MenuIterable_iter(2, OrderMaxIters)

SpecOrder == Init /\ [][NextOrder]_vars

\* One Order and one traversal of it at a time, of any method.
NextTraverse ==
    \/ \E name \in Names, flag \in BOOLEAN :
          Construct("Beverage", name, 1, 1, flag, "Medium", TravMaxObjs)
    \/ \E i \in Ids : add_item(i, TravMaxLen)
    \/ \E m \in Methods : MenuIterable_iter(m, TravMaxIters)
    \/ \E k \in 1..Len(iters) : Next_step(k)

SpecTraverse == Init /\ [][NextTraverse]_vars

\* Construction of items of every class, from valid and invalid arguments.
NextConstruct ==
    \E kind \in Kinds, price \in {-1, 0, 1}, quantity \in {-1, 0, 1},
       flag \in BOOLEAN :
       Construct(kind, "Flan", price, quantity, flag, "Large", ConsMaxObjs)

SpecConstruct == Init /\ [][NextConstruct]_vars

\* Items of every class and the operations that follow their construction.
NextItem ==
    \/ \E kind \in Kinds, flag \in BOOLEAN :
          Construct(kind, "Latte", 2, 2, flag, "Small", ItemMaxObjs)
    \/ \E i \in Ids, fee \in Fees : change_price(i, fee, MaxChanges)
    \/ \E i \in Ids : add_item(i, ItemMaxLen)
    \/ calculate_bill
    \/ apply_discount(1)
    \/ \E m \in {1, 2} : MenuIterable_iter(m, ItemMaxIters)
    \/ \E k \in 1..Len(iters) : Next_step(k)

SpecItem == Init /\ [][NextItem]_vars

\* Comparisons among items of several prices and quantities.
NextLt ==
    \/ \E kind \in {"MenuItem", "Dessert"}, price \in {1, 2},
          quantity \in {1, 2}, flag \in BOOLEAN :
          Construct(kind, "Flan", price, quantity, flag, "", LtMaxObjs)
    \/ \E i \in Ids, j \in Ids : less_than(i, j)

SpecLt == Init /\ [][NextLt]_vars

----------------------------------------------------------------------------
(* Properties                                                              *)

\* Number of occurrences of x in seq
Count(seq, x) == Cardinality({k \in 1..Len(seq) : seq[k] = x})

IsPermutation(s, t) ==
    /\ Len(s) = Len(t)
    /\ \A x \in Ids : Count(s, x) = Count(t, x)

\* The ordering the specification states for items
Less(a, b) ==
    \/ a.price < b.price
    \/ (a.price = b.price /\ a.quantity < b.quantity)

IsSorted(seq) ==
    \A i, j \in 1..Len(seq) : i < j => ~Less(heap[seq[j]], heap[seq[i]])

\* Objects that are neither less than the other keep their relative order
SameTieOrder(s, t) ==
    \A x \in Ids :
        LET tie(y) == ~Less(heap[x], heap[y]) /\ ~Less(heap[y], heap[x])
        IN SelectSeq(s, tie) = SelectSeq(t, tie)

Mains == {k \in 1..Len(iters) : iters[k].kind = MainIterator}
Seconds == {k \in 1..Len(iters) : iters[k].kind = SecondIterator}
Lists == {k \in 1..Len(iters) : iters[k].kind = ListIterator}

\* C1: after any sequence of operations the Order's stored sequence is the
\* items in the order they were passed to add_item; show() and the default
\* iteration return the items in insertion order.
C1_StoredIsInsertionOrder ==
    /\ menu_items = added
    /\ ret.op = "show" =>
         ret.val = [k \in 1..Len(added) |-> heap[added[k]].name]
    /\ \A k \in Lists : \A j \in 1..Len(iters[k].out) :
         iters[k].out[j] = YieldItem(added[j])

C3_PrimaryInInsertionOrder ==
    /\ \A k \in Mains :
         /\ Len(iters[k].out) = iters[k].current_item_index
         /\ \A j \in 1..Len(iters[k].out) :
              iters[k].out[j] = YieldItem(added[j])
    /\ (ret.op = "next" /\ ret.it \in Mains) =>
         IF ret.stop
         THEN iters[ret.it].current_item_index = Len(added)
         ELSE ret.val = YieldItem(added[iters[ret.it].current_item_index])
    /\ ret.op = "iter" =>
         /\ iters[Len(iters)].current_item_index = 0
         /\ iters[Len(iters)].out = <<>>

\* C4 as stated: InvalidPrice whenever price < 0, InvalidQuantity whenever
\* quantity <= 0, success otherwise.
C4_ErrorsAsStated ==
    ret.op = "construct" =>
        /\ ret.price < 0 => ret.err = InvalidPrice
        /\ ret.quantity <= 0 => ret.err = InvalidQuantity
        /\ (ret.price >= 0 /\ ret.quantity > 0) => ret.err = NoError

\* C4 amended: the price is checked first.  Construction fails with
\* InvalidPrice when price < 0, with InvalidQuantity when price >= 0 and
\* quantity <= 0, and succeeds otherwise; the two errors differ; a failed
\* construction leaves no object, a successful one leaves exactly one.
C4_PriceCheckedFirst ==
    [][ ret'.op = "construct" =>
          /\ ret'.price < 0 => ret'.err = InvalidPrice
          /\ (ret'.price >= 0 /\ ret'.quantity <= 0) =>
                ret'.err = InvalidQuantity
          /\ (ret'.price >= 0 /\ ret'.quantity > 0) => ret'.err = NoError
          /\ InvalidPrice # InvalidQuantity
          /\ ret'.err # NoError => heap' = heap
          /\ ret'.err = NoError =>
                /\ Len(heap') = Len(heap) + 1
                /\ SubSeq(heap', 1, Len(heap)) = heap
                /\ heap'[Len(heap')].quantity = ret'.quantity
                /\ heap'[Len(heap')].base = ret'.price
      ]_vars

\* A construction with a negative price and a quantity that is not positive
\* has failed, after another one succeeded.
C4_Witness ==
    /\ ret.op = "construct"
    /\ ret.price < 0
    /\ ret.quantity <= 0
    /\ ret.err = InvalidPrice
    /\ Len(heap) = 1

RECURSIVE Product(_)
Product(seq) == IF seq = <<>> THEN 1 ELSE Head(seq) * Product(Tail(seq))

\* The multiplier the specification gives a class and its flag, in hundredths
Multiplier(kind, flag) ==
    IF ~flag THEN 100
    ELSE IF kind \in {"Appetizer", "Dessert"} THEN 95
    ELSE IF kind \in {"MainCourse", "Beverage"} THEN 105
    ELSE 100

\* C5: an item's price is the constructor's price times the multiplier of
\* its class, applied once if its flag is set and not at all otherwise,
\* times the fees of the later change_price calls; no other operation
\* changes it.
C5_MultiplierAppliedOnce ==
    \A i \in Ids :
        heap[i].price * 100 =
            heap[i].base * Milli * Multiplier(heap[i].kind, heap[i].flag)
                * Product(heap[i].fees)

\* A flagged item whose price was changed is stored in the Order, the
\* bill was computed, and a traversal has yielded it.
C5_Witness ==
    \E i \in Ids :
        /\ heap[i].flag
        /\ heap[i].kind = "Dessert"
        /\ heap[i].fees # <<>>
        /\ menu_items = <<i>>
        /\ \E k \in Seconds : Len(iters[k].out) = 1

\* The sum of price x quantity over the occurrences of the ids in S
RECURSIVE TotalOver(_, _)
TotalOver(seq, S) ==
    IF S = {} THEN 0
    ELSE LET x == CHOOSE y \in S : TRUE
         IN Count(seq, x) * heap[x].price * heap[x].quantity
            + TotalOver(seq, S \ {x})

Reorderings(seq) ==
    {t \in [1..Len(seq) -> Ids] : IsPermutation(t, seq)}

C7_DiscountIsPure ==
    [][ ret'.op = "apply_discount" =>
          /\ ret'.val * 10 =
                TotalOver(menu_items, Ids) * (10 - ret'.discount)
          /\ ret'.discount = 0 => ret'.val = BillOf(menu_items)
          /\ heap' = heap
          /\ menu_items' = menu_items
          /\ BillOf(menu_items)' = BillOf(menu_items)
      ]_vars

\* A discount above 1 has given a negative result, one below 0 would give
\* more than the bill.
C7_Witness ==
    /\ ret.op = "apply_discount"
    /\ ret.discount > 10
    /\ ret.val < 0
    /\ Len(menu_items) = 2

\* C8: A < B iff A.price < B.price, or the prices are equal and
\* A.quantity < B.quantity; the relation is irreflexive, asymmetric and
\* transitive.
C8_LtIsStrictOrder ==
    /\ \A a, b \in Ids :
         /\ Lt(heap[a], heap[b]) <=>
              \/ heap[a].price < heap[b].price
              \/ /\ heap[a].price = heap[b].price
                 /\ heap[a].quantity < heap[b].quantity
         /\ (heap[a].price = heap[b].price
              /\ heap[a].quantity = heap[b].quantity) =>
                (~Lt(heap[a], heap[b]) /\ ~Lt(heap[b], heap[a]))
         /\ ~Lt(heap[a], heap[a])
         /\ Lt(heap[a], heap[b]) => ~Lt(heap[b], heap[a])
    /\ \A a, b, c \in Ids :
         (Lt(heap[a], heap[b]) /\ Lt(heap[b], heap[c])) =>
            Lt(heap[a], heap[c])
    /\ ret.op = "lt" =>
         (ret.val <=>
            \/ heap[ret.left].price < heap[ret.right].price
            \/ /\ heap[ret.left].price = heap[ret.right].price
               /\ heap[ret.left].quantity < heap[ret.right].quantity)

\* Three items in a chain, the first two of one price, and a comparison
\* decided by the quantities.
C8_Witness ==
    /\ Len(heap) = 3
    /\ heap[1].price = heap[2].price
    /\ heap[1].quantity < heap[2].quantity
    /\ heap[2].price < heap[3].price
    /\ heap[3].quantity < heap[2].quantity
    /\ ret.op = "lt"
    /\ ret.left = 1
    /\ ret.right = 2
    /\ ret.val

\* C9: method 1 gives the primary traversal, which yields MenuItem objects;
\* every other method, 2 or unrecognized, gives the secondary one, which
\* yields rows.
C9_MethodSelectsStrategy ==
    /\ \A k \in Mains \cup Seconds :
         /\ iters[k].method = 1 <=> iters[k].kind = MainIterator
         /\ iters[k].method # 1 <=> iters[k].kind = SecondIterator
         /\ \A j \in 1..Len(iters[k].out) :
              iters[k].out[j].type =
                 IF iters[k].method = 1 THEN "MenuItem" ELSE "str"
    /\ ret.op = "iter" =>
         /\ ret.kind = iters[Len(iters)].kind
         /\ ret.method = iters[Len(iters)].method

\* A traversal made with an unrecognized method has yielded a row.
C9_Witness ==
    \E k \in Seconds :
        /\ iters[k].method = 3
        /\ Len(iters[k].out) = 2
        /\ iters[k].out[2].type = "str"

\* C10: every traversal's index stays within 0..size, a step yields the
\* item at the index and advances by one or signals exhaustion and leaves
\* the index, and a primary traversal stepped to exhaustion has yielded
\* each item of the Order exactly once.
C10_TraversalYieldsEachOnce ==
    /\ \A k \in 1..Len(iters) :
         /\ iters[k].current_item_index \in 0..Len(menu_items)
         /\ Len(iters[k].out) = iters[k].current_item_index
    /\ \A k \in Mains :
         iters[k].current_item_index = Len(menu_items) =>
            \A x \in Ids :
               Count(iters[k].out, YieldItem(x)) = Count(menu_items, x)

====
